---- MODULE Spec2Model ----
(***************************************************************************)
(* lambda_infer.py: lambda_handler and recommend_instance.                 *)
(*                                                                         *)
(* One invocation of lambda_handler is modelled from the parsing of the    *)
(* event to the response.  The tables returned by load_df_from_s3 are      *)
(* chosen when they are loaded.  recommend_instance runs in four steps     *)
(* (validation, candidate discovery, evaluation loop, ranking).            *)
(*                                                                         *)
(* Python values are tagged: a label or a string-valued event field is a   *)
(* pair <<type, text>> with type "str", "int" or "none" (None), so that    *)
(* the integer 1 and the string "1" are different values, as in Python.    *)
(* A numeric event field is a record [k, n] with k "int", "absent" (key    *)
(* missing) or "bad" (a value int() rejects).  Instance types are named    *)
(* by numerals ("1" .. "4"), so that read_csv can type the label column    *)
(* of the interchangeability table as integers.                            *)
(***************************************************************************)
EXTENDS Integers, Sequences, FiniteSets, TLC

VARIABLES pc, event, args, catalog_df, matrix_df, compatible_names,
          candidates, result, response, s3_gets, invoked

vars == <<pc, event, args, catalog_df, matrix_df, compatible_names,
          candidates, result, response, s3_gets, invoked>>

----------------------------------------------------------------------------
(* Bounds and the input universe *)

MaxTopN == 2

None == <<"none", "">>
S(t) == <<"str", t>>
I(t) == <<"int", t>>

Absent == [k |-> "absent", n |-> 0]
Bad == [k |-> "bad", n |-> 0]
Num(i) == [k |-> "int", n |-> i]

DefaultTopN == 3
GiB == 1024

\* A catalog row is <<InstanceType, [vCPUs, MemoryMiB, GPUs]>>.
InstanceSpec(v, m, g) == [vCPUs |-> v, MemoryMiB |-> m, GPUs |-> g]

\* The rows a catalog table is drawn from; a loaded catalog holds any
\* subsequence of them.  "3" and "4" are at the same distance from the
\* requirement (4, 7168, 0) with different specifications.
CatalogRows ==
    << <<S("1"), InstanceSpec(4, 8192, 0)>>,
       <<S("2"), InstanceSpec(8, 16384, 0)>>,
       <<S("3"), InstanceSpec(4, 8192, 0)>>,
       <<S("4"), InstanceSpec(4, 7168, 1)>> >>

RECURSIVE SubSeqBy(_, _, _)
SubSeqBy(rows, keep, i) ==
    IF i > Len(rows) THEN <<>>
    ELSE (IF i \in keep THEN <<rows[i]>> ELSE <<>>) \o SubSeqBy(rows, keep, i + 1)

Catalogs == { SubSeqBy(CatalogRows, keep, 1) : keep \in SUBSET (1..Len(CatalogRows)) }

\* Label layouts of the interchangeability table as read from CSV, before
\* set_index: the first column (the future index) and the header of the
\* remaining columns.  read_csv yields string headers; a numeric first
\* column is read as integers.
Layouts ==
    { [index |-> <<S("1"), S("2"), S("3"), S("4")>>,
       columns |-> <<S("1"), S("2"), S("3"), S("4")>>],
      [index |-> <<S("4"), S("3"), S("2"), S("1")>>,
       columns |-> <<S("4"), S("3"), S("2"), S("1")>>],
      [index |-> <<S("2"), S("3"), S("4")>>,
       columns |-> <<S("1"), S("2"), S("3"), S("4")>>],
      [index |-> <<I("1"), I("2"), I("3"), I("4")>>,
       columns |-> <<S("1"), S("2"), S("3"), S("4")>>] }

\* Raw tables: the row labelled "1" (string or integer) carries the cell pattern p, every other
\* row its complement.
RawMatrix(lay, p) ==
    [index |-> lay.index,
     columns |-> lay.columns,
     rows |-> [i \in 1..Len(lay.index) |->
                 [j \in 1..Len(lay.columns) |->
                    IF lay.index[i][2] = "1" THEN p[j] ELSE 1 - p[j]]]]

RawMatrices ==
    UNION { { RawMatrix(lay, p) : p \in [1..Len(lay.columns) -> {0, 1}] } : lay \in Layouts }

NoTable == <<>>
NoMatrix == [index |-> <<>>, columns |-> <<>>, rows |-> <<>>]

----------------------------------------------------------------------------
(* Python helpers *)

\* str(x) of a label: the text, typed as a string.
PyStr(l) == <<"str", l[2]>>

\* bool(x) of a table cell read as a number.
PyBool(x) == x # 0

\* Truthiness of a string-or-None value: None and "" are falsy.
Truthy(l) == l[1] # "none" /\ l[2] # ""

\* a or b
PyOr(a, b) == IF Truthy(a) THEN a ELSE b

\* seq[:n]
Slice(seq, n) ==
    IF n >= 0
    THEN SubSeq(seq, 1, IF n < Len(seq) THEN n ELSE Len(seq))
    ELSE IF Len(seq) + n > 0 THEN SubSeq(seq, 1, Len(seq) + n) ELSE <<>>

\* int(event.get(key, default)): the default when the key is missing.
PyInt(f, default) == IF f.k = "absent" THEN default ELSE f.n

----------------------------------------------------------------------------
(* recommend_instance *)

\* matrix_df.index.astype(str), matrix_df.columns.astype(str)
AsTypeStr(labels) == [i \in DOMAIN labels |-> PyStr(labels[i])]

\* instances_df.set_index('InstanceType').to_dict(orient='index')
NameMap(df) ==
    [l \in { df[i][1] : i \in DOMAIN df } |->
        (CHOOSE r \in { df[i] : i \in DOMAIN df } : r[1] = l)[2]]

\* matrix_df.loc[label]: the cells of the row with that label.
Loc(m, label) == m.rows[CHOOSE i \in DOMAIN m.index : m.index[i] = label]

\* Variant: the comprehension without the test against the source name.
RECURSIVE CompatibleNames_KeepSelf(_, _, _, _)
CompatibleNames_KeepSelf(columns, series, current, j) ==
    IF j > Len(columns) THEN <<>>
    ELSE (IF series[j] = TRUE THEN <<PyStr(columns[j])>> ELSE <<>>)
         \o CompatibleNames_KeepSelf(columns, series, current, j + 1)

\* Variant: the comprehension without the test of the cell.
RECURSIVE CompatibleNames_IgnoreOk(_, _, _, _)
CompatibleNames_IgnoreOk(columns, series, current, j) ==
    IF j > Len(columns) THEN <<>>
    ELSE (IF PyStr(columns[j]) # current THEN <<PyStr(columns[j])>> ELSE <<>>)
         \o CompatibleNames_IgnoreOk(columns, series, current, j + 1)

\* The comprehension over interchangeable_series.items(), in column order.
RECURSIVE CompatibleNames(_, _, _, _)
CompatibleNames(columns, series, current, j) ==
    IF j > Len(columns) THEN <<>>
    ELSE (IF series[j] = TRUE /\ PyStr(columns[j]) # current
          THEN <<PyStr(columns[j])>> ELSE <<>>)
         \o CompatibleNames(columns, series, current, j + 1)

\* Variant: the threshold test without the GPU comparison.
MeetsRequirement_NoGpu(inst, a) ==
    ~ (inst.vCPUs < a.required_vcpus \/ inst.MemoryMiB < a.required_memory_mib)

\* Variant: a target is dropped only when it is short on all three resources.
MeetsRequirement_AllShort(inst, a) ==
    ~ (inst.vCPUs < a.required_vcpus
       /\ inst.MemoryMiB < a.required_memory_mib
       /\ inst.GPUs < a.required_gpus)

\* The threshold test of the loop body; TRUE when the target is kept.
MeetsRequirement(inst, a) ==
    ~ (inst.vCPUs < a.required_vcpus
       \/ inst.MemoryMiB < a.required_memory_mib
       \/ inst.GPUs < a.required_gpus)

\* The distance metric.  dist is the square root of
\*   (vcpu - req)^2 + (mem/1024 - req_mem/1024)^2 + (gpu - req)^2 ;
\* Score holds GiB^2 times the radicand, an integer.  The square root is
\* strictly increasing, so Score orders and ties exactly as dist does.
Dist(inst, a) ==
    (GiB * (inst.vCPUs - a.required_vcpus)) * (GiB * (inst.vCPUs - a.required_vcpus))
    + (inst.MemoryMiB - a.required_memory_mib) * (inst.MemoryMiB - a.required_memory_mib)
    + (GiB * (inst.GPUs - a.required_gpus)) * (GiB * (inst.GPUs - a.required_gpus))

Candidate(target, inst, a) ==
    [InstanceType |-> target, vCPUs |-> inst.vCPUs, MemoryMiB |-> inst.MemoryMiB,
     GPUs |-> inst.GPUs, Score |-> Dist(inst, a)]

\* The loop over compatible_names.
RECURSIVE Evaluate(_, _, _, _)
Evaluate(names, name_map, a, k) ==
    IF k > Len(names) THEN <<>>
    ELSE (IF names[k] \notin DOMAIN name_map THEN <<>>
          ELSE IF ~ MeetsRequirement(name_map[names[k]], a) THEN <<>>
          ELSE <<Candidate(names[k], name_map[names[k]], a)>>)
         \o Evaluate(names, name_map, a, k + 1)

\* Variant: an insertion that places a candidate before its equals.
RECURSIVE Insert_BeforeEquals(_, _)
Insert_BeforeEquals(sorted, c) ==
    IF sorted = <<>> THEN <<c>>
    ELSE IF sorted[Len(sorted)].Score < c.Score THEN Append(sorted, c)
    ELSE Append(Insert_BeforeEquals(SubSeq(sorted, 1, Len(sorted) - 1), c),
                sorted[Len(sorted)])

\* list.sort(key=Score): stable, ascending.
RECURSIVE Insert(_, _)
Insert(sorted, c) ==
    IF sorted = <<>> THEN <<c>>
    ELSE IF sorted[Len(sorted)].Score <= c.Score THEN Append(sorted, c)
    ELSE Append(Insert(SubSeq(sorted, 1, Len(sorted) - 1), c), sorted[Len(sorted)])

RECURSIVE SortByScore(_)
SortByScore(cs) ==
    IF cs = <<>> THEN <<>>
    ELSE Insert(SortByScore(SubSeq(cs, 1, Len(cs) - 1)), cs[Len(cs)])

----------------------------------------------------------------------------
(* lambda_handler *)

Events ==
    [current_instance_type : {None, S("1")},
     instance_type : {None, S("1")},
     required_vcpus : {Absent, Num(4), Bad},
     required_memory_mib : {Absent, Num(7168), Num(8192)},
     required_gpus : {Absent, Num(1)},
     top_n : {Absent} \cup { Num(n) : n \in -1..MaxTopN },
     bucket : {None, S("b")},
     catalog_key : {None, S("c.csv")},
     matrix_key : {None, S("m.csv")}]

NoArgs ==
    [current_instance_type |-> None, required_vcpus |-> 0,
     required_memory_mib |-> 0, required_gpus |-> 0, top_n |-> 0]

NoResult == [kind |-> "none"]
NoResponse == [statusCode |-> 0]

\* Variant: the failure is returned as an error dictionary, not raised.
Raised_AsReturn(msg) == [kind |-> "error", error |-> msg, msg |-> msg]

\* A ValueError raised by recommend_instance.
Raised(msg) == [kind |-> "raised", msg |-> msg]

\* The two dictionaries recommend_instance returns with an "error" key.
NoInterchangeable(current) ==
    [kind |-> "error", error |-> "No interchangeable instances found", current |-> current]

NoFeasible(a) ==
    [kind |-> "error", error |-> "No compatible instance meets requirements",
     vcpus |-> a.required_vcpus, memory_mib |-> a.required_memory_mib,
     gpus |-> a.required_gpus]

\* Variant: best is taken from the other end of the sorted list.
Ranked_BestLast(a, sorted) ==
    [kind |-> "ranked",
     current |-> a.current_instance_type,
     requested |-> [vcpus |-> a.required_vcpus, memory_mib |-> a.required_memory_mib,
                    gpus |-> a.required_gpus],
     best |-> sorted[Len(sorted)],
     top_n |-> Slice(sorted, a.top_n)]

Ranked(a, sorted) ==
    [kind |-> "ranked",
     current |-> a.current_instance_type,
     requested |-> [vcpus |-> a.required_vcpus, memory_mib |-> a.required_memory_mib,
                    gpus |-> a.required_gpus],
     best |-> sorted[1],
     top_n |-> Slice(sorted, a.top_n)]

Init ==
    /\ pc = "parse"
    /\ event \in Events
    /\ args = NoArgs
    /\ catalog_df = NoTable
    /\ matrix_df = NoMatrix
    /\ compatible_names = <<>>
    /\ candidates = <<>>
    /\ result = NoResult
    /\ response = NoResponse
    /\ s3_gets = 0
    /\ invoked = FALSE

\* One of the int(...) conversions of the parsing block raises.
ParseRaises(e) ==
    \/ e.required_vcpus.k = "bad"
    \/ e.required_memory_mib.k = "bad"
    \/ e.required_gpus.k = "bad"
    \/ e.top_n.k = "bad"

\* not bucket or not catalog_key or not matrix_key
LocationMissing(e) ==
    ~ Truthy(e.bucket) \/ ~ Truthy(e.catalog_key) \/ ~ Truthy(e.matrix_key)

ParsedArgs(e) ==
    [current_instance_type |-> PyOr(e.current_instance_type, e.instance_type),
     required_vcpus |-> PyInt(e.required_vcpus, 0),
     required_memory_mib |-> PyInt(e.required_memory_mib, 0),
     required_gpus |-> PyInt(e.required_gpus, 0),
     top_n |-> PyInt(e.top_n, DefaultTopN)]

Frame == UNCHANGED <<event, catalog_df, matrix_df, compatible_names, candidates,
                     result, s3_gets, invoked>>

\* int() raises while the inputs are parsed: caught by the outer except.
ParseFails ==
    /\ pc = "parse"
    /\ ParseRaises(event)
    /\ response' = [statusCode |-> 500, body |-> [error |-> "invalid literal for int()"]]
    /\ pc' = "done"
    /\ UNCHANGED args
    /\ Frame

MissingLocation ==
    /\ pc = "parse"
    /\ ~ ParseRaises(event)
    /\ LocationMissing(event)
    /\ args' = ParsedArgs(event)
    /\ response' = [statusCode |-> 400,
                    body |-> [error |-> "Missing S3 bucket, catalog_key, or matrix_key."]]
    /\ pc' = "done"
    /\ Frame

ParseOk ==
    /\ pc = "parse"
    /\ ~ ParseRaises(event)
    /\ ~ LocationMissing(event)
    /\ args' = ParsedArgs(event)
    /\ pc' = "load_catalog"
    /\ UNCHANGED response
    /\ Frame

\* catalog_df = load_df_from_s3(bucket, catalog_key)
LoadCatalog ==
    /\ pc = "load_catalog"
    /\ \E cat \in Catalogs : catalog_df' = cat
    /\ s3_gets' = s3_gets + 1
    /\ pc' = "load_matrix"
    /\ UNCHANGED <<event, args, matrix_df, compatible_names, candidates, result,
                   response, invoked>>

\* The matrix as the handler prepares it: set_index on the first column,
\* then applymap(bool).
Prepared(raw) ==
    [index |-> raw.index,
     columns |-> raw.columns,
     rows |-> [i \in DOMAIN raw.rows |->
                 [j \in DOMAIN raw.rows[i] |-> PyBool(raw.rows[i][j])]]]

LoadMatrix ==
    /\ pc = "load_matrix"
    /\ \E raw \in RawMatrices : matrix_df' = Prepared(raw)
    /\ s3_gets' = s3_gets + 1
    /\ pc' = "call"
    /\ UNCHANGED <<event, args, catalog_df, compatible_names, candidates, result,
                   response, invoked>>

\* load_df_from_s3 raises (object missing, store unreachable, malformed CSV).
LoadFails ==
    /\ pc \in {"load_catalog", "load_matrix"}
    /\ s3_gets' = s3_gets + 1
    /\ response' = [statusCode |-> 500, body |-> [error |-> "load failed"]]
    /\ pc' = "done"
    /\ UNCHANGED <<event, args, catalog_df, matrix_df, compatible_names, candidates,
                   result, invoked>>

\* The first two statements of recommend_instance.
Normalised(m) ==
    [index |-> AsTypeStr(m.index), columns |-> AsTypeStr(m.columns), rows |-> m.rows]

InCatalog(df, current) == current \in DOMAIN NameMap(df)
InIndex(m, current) == \E i \in DOMAIN m.index : m.index[i] = current

\* recommend_instance is entered and raises: source not in the catalog.
UnknownInCatalog ==
    /\ pc = "call"
    /\ invoked' = TRUE
    /\ matrix_df' = Normalised(matrix_df)
    /\ ~ InCatalog(catalog_df, args.current_instance_type)
    /\ result' = Raised("not found in catalog")
    /\ pc' = "except"
    /\ UNCHANGED <<event, args, catalog_df, compatible_names, candidates, response, s3_gets>>

\* recommend_instance is entered and raises: source not in the matrix index.
UnknownInMatrix ==
    /\ pc = "call"
    /\ invoked' = TRUE
    /\ matrix_df' = Normalised(matrix_df)
    /\ InCatalog(catalog_df, args.current_instance_type)
    /\ ~ InIndex(matrix_df', args.current_instance_type)
    /\ result' = Raised("not found in interchangeability matrix index")
    /\ pc' = "except"
    /\ UNCHANGED <<event, args, catalog_df, compatible_names, candidates, response, s3_gets>>

\* recommend_instance is entered and both membership tests pass.
Validated ==
    /\ pc = "call"
    /\ invoked' = TRUE
    /\ matrix_df' = Normalised(matrix_df)
    /\ InCatalog(catalog_df, args.current_instance_type)
    /\ InIndex(matrix_df', args.current_instance_type)
    /\ pc' = "discover"
    /\ UNCHANGED <<event, args, catalog_df, compatible_names, candidates, result,
                   response, s3_gets>>

\* compatible_names is built; an empty list returns the first error dict.
Discover ==
    /\ pc = "discover"
    /\ compatible_names' =
         CompatibleNames(matrix_df.columns, Loc(matrix_df, args.current_instance_type),
                         args.current_instance_type, 1)
    /\ IF compatible_names' = <<>>
       THEN /\ result' = NoInterchangeable(args.current_instance_type)
            /\ pc' = "return"
       ELSE /\ UNCHANGED result
            /\ pc' = "evaluate"
    /\ UNCHANGED <<event, args, catalog_df, matrix_df, candidates, response, s3_gets,
                   invoked>>

\* The evaluation loop; an empty candidates list returns the second error dict.
EvaluateCandidates ==
    /\ pc = "evaluate"
    /\ candidates' = Evaluate(compatible_names, NameMap(catalog_df), args, 1)
    /\ IF candidates' = <<>>
       THEN /\ result' = NoFeasible(args)
            /\ pc' = "return"
       ELSE /\ UNCHANGED result
            /\ pc' = "rank"
    /\ UNCHANGED <<event, args, catalog_df, matrix_df, compatible_names, response,
                   s3_gets, invoked>>

\* Sort in place, take best and top, return the ranked dict.
Rank ==
    /\ pc = "rank"
    /\ candidates' = SortByScore(candidates)
    /\ result' = Ranked(args, candidates')
    /\ pc' = "return"
    /\ UNCHANGED <<event, args, catalog_df, matrix_df, compatible_names, response,
                   s3_gets, invoked>>

\* return {"statusCode": 200, "body": json.dumps(result)}
HandlerReturn ==
    /\ pc = "return"
    /\ response' = [statusCode |-> 200, body |-> result]
    /\ pc' = "done"
    /\ UNCHANGED args
    /\ Frame

\* except Exception as e: the ValueError of recommend_instance.
HandlerExcept ==
    /\ pc = "except"
    /\ response' = [statusCode |-> 500, body |-> [error |-> result.msg]]
    /\ pc' = "done"
    /\ UNCHANGED args
    /\ Frame

Next ==
    \/ ParseFails
    \/ MissingLocation
    \/ ParseOk
    \/ LoadCatalog
    \/ LoadMatrix
    \/ LoadFails
    \/ UnknownInCatalog
    \/ UnknownInMatrix
    \/ Validated
    \/ Discover
    \/ EvaluateCandidates
    \/ Rank
    \/ HandlerReturn
    \/ HandlerExcept

Spec == Init /\ [][Next]_vars

----------------------------------------------------------------------------
(* Vocabulary of the properties, stated on the inputs of recommend_instance *)
(* (args, catalog_df, matrix_df) and not on its intermediate lists.         *)

Source == args.current_instance_type

Range(seq) == { seq[i] : i \in DOMAIN seq }

ColumnNames == Range(matrix_df.columns)

HasRow == \E i \in DOMAIN matrix_df.index : matrix_df.index[i] = Source

SourceRow == matrix_df.rows[CHOOSE i \in DOMAIN matrix_df.index : matrix_df.index[i] = Source]

\* The position at which a name is met when the row of the source is iterated.
Pos(name) == CHOOSE j \in DOMAIN matrix_df.columns : matrix_df.columns[j] = name

MarkedTrue(name) == name \in ColumnNames /\ SourceRow[Pos(name)] = TRUE

CatalogHas(name) == \E i \in DOMAIN catalog_df : catalog_df[i][1] = name

SpecOf(name) == (CHOOSE r \in Range(catalog_df) : r[1] = name)[2]

MeetsAll(x) ==
    /\ x.vCPUs >= args.required_vcpus
    /\ x.MemoryMiB >= args.required_memory_mib
    /\ x.GPUs >= args.required_gpus

Compatible == { n \in ColumnNames : MarkedTrue(n) /\ n # Source }

FeasibleNames == { n \in Compatible : CatalogHas(n) /\ MeetsAll(SpecOf(n)) }

Min(a, b) == IF a <= b THEN a ELSE b

\* recommend_instance has returned a dictionary (ranked or error).
Returned == result.kind \in {"ranked", "error"}

\* 2^20 times the squared Euclidean distance over (vCPUs, MemoryMiB/1024, GPUs).
SquaredDistance(x) ==
    1048576 * (x.vCPUs - args.required_vcpus) * (x.vCPUs - args.required_vcpus)
    + (x.MemoryMiB - args.required_memory_mib) * (x.MemoryMiB - args.required_memory_mib)
    + 1048576 * (x.GPUs - args.required_gpus) * (x.GPUs - args.required_gpus)

ExactMatch(x) ==
    /\ x.vCPUs = args.required_vcpus
    /\ x.MemoryMiB = args.required_memory_mib
    /\ x.GPUs = args.required_gpus

Types(seq) == [i \in DOMAIN seq |-> seq[i].InstanceType]

----------------------------------------------------------------------------
(* Properties *)

\* C1: in every ranked result, each entry of top_n, and best, meets the three
\* thresholds, is marked true in the row of the source and has a catalog
\* entry whose specification it carries.
C1_TopEntriesFeasible ==
    result.kind = "ranked" =>
        \A c \in Range(result.top_n) \cup {result.best} :
            /\ MeetsAll(c)
            /\ MarkedTrue(c.InstanceType)
            /\ CatalogHas(c.InstanceType)
            /\ SpecOf(c.InstanceType) =
                 [vCPUs |-> c.vCPUs, MemoryMiB |-> c.MemoryMiB, GPUs |-> c.GPUs]

\* A ranked result of two entries or more, with a compatible catalogued target
\* left out because it misses a threshold.
C1_Witness ==
    /\ result.kind = "ranked"
    /\ Len(result.top_n) >= 2
    /\ \E n \in Compatible : CatalogHas(n) /\ ~ MeetsAll(SpecOf(n))

\* C2 (as claimed): for every integer limit, a ranked result has
\* len(top_n) = min(limit, number of feasible candidates).
C2_LenIsMinOfLimitAndFeasible ==
    result.kind = "ranked" =>
        Len(result.top_n) = Min(args.top_n, Cardinality(FeasibleNames))

\* C3: top_n is ascending by score; the score is the Euclidean distance over
\* (vCPUs, MemoryMiB/1024, GPUs); equal scores keep the order in which the
\* names are met in the row of the source; an exact match precedes every
\* entry that differs from the requirement; Scenario A yields [C, B] (here
\* the names are "3" and "2").
C3_TopSortedStable ==
    result.kind = "ranked" =>
        LET top == result.top_n IN
        /\ \A i \in DOMAIN top : top[i].Score = SquaredDistance(top[i])
        /\ \A i, j \in DOMAIN top :
              i < j =>
                 /\ top[i].Score <= top[j].Score
                 /\ top[i].Score = top[j].Score =>
                       Pos(top[i].InstanceType) < Pos(top[j].InstanceType)
                 /\ ~ (ExactMatch(top[j]) /\ ~ ExactMatch(top[i]))
        /\ ( /\ result.requested = [vcpus |-> 4, memory_mib |-> 8192, gpus |-> 0]
             /\ FeasibleNames = {S("2"), S("3")}
             /\ args.top_n >= 2 )
           => Types(top) = <<S("3"), S("2")>>

\* Two entries of equal score and different specification, the first of them
\* later in alphabetical order.
C3_Witness ==
    /\ result.kind = "ranked"
    /\ Len(result.top_n) >= 2
    /\ result.top_n[1].Score = result.top_n[2].Score
    /\ result.top_n[1].vCPUs = result.top_n[2].vCPUs
    /\ result.top_n[1].MemoryMiB # result.top_n[2].MemoryMiB
    /\ Types(SubSeq(result.top_n, 1, 2)) = <<S("4"), S("3")>>

\* C4 (as claimed): whenever the feasible set is non-empty, for every limit,
\* best is the first element of top_n.  Stated for the limits that are not
\* negative, for which candidates[:top_n] is a prefix of that length.
C4_BestIsFirstOfTop ==
    (Returned /\ FeasibleNames # {} /\ args.top_n >= 0) =>
        /\ result.kind = "ranked"
        /\ Len(result.top_n) >= 1
        /\ result.best = result.top_n[1]

\* C4 (amended): whenever top_n is non-empty, best is its first element; with
\* limit 1 top_n has exactly one element, equal to best.
C4_BestIsFirstOfNonEmptyTop ==
    (Returned /\ FeasibleNames # {}) =>
        /\ result.kind = "ranked"
        /\ result.top_n # <<>> => result.best = result.top_n[1]
        /\ args.top_n = 1 => result.top_n = <<result.best>>

\* Scenario E: limit 1 with three feasible candidates.
C4_Witness ==
    /\ result.kind = "ranked"
    /\ args.top_n = 1
    /\ Cardinality(FeasibleNames) = 3
    /\ result.top_n = <<result.best>>

\* The source is known: it has a catalog entry and a row in the relation.
KnownSource == CatalogHas(Source) /\ HasRow

\* recommend_instance has finished, by returning or by raising.
Finished == invoked /\ result.kind # "none"

\* C5: the source never appears among the compatible names, the candidates,
\* best or top_n, also when its own cell is true and its own specification
\* meets the requirement; when its own cell is the only true one of its row
\* the outcome is the no-interchangeable-instances dictionary.
C5_SourceNeverRecommended ==
    invoked =>
        /\ Source \notin Range(compatible_names)
        /\ Source \notin Range(Types(candidates))
        /\ result.kind = "ranked" =>
              /\ result.best.InstanceType # Source
              /\ Source \notin Range(Types(result.top_n))
        /\ (Finished /\ KnownSource /\ MarkedTrue(Source) /\ Compatible = {}) =>
              result = NoInterchangeable(Source)

\* A ranked result for a source whose own cell is true and whose own
\* specification meets the requirement.
C5_Witness ==
    /\ result.kind = "ranked"
    /\ MarkedTrue(Source)
    /\ MeetsAll(SpecOf(Source))

\* C6: a source absent from the catalog, or without a row in the relation,
\* makes recommend_instance raise, whatever the requirement and the limit,
\* before any candidate is looked at; no dictionary is returned.
C6_UnknownSourceRaises ==
    (invoked /\ ~ KnownSource) =>
        /\ result.kind = "raised"
        /\ pc \in {"except", "done"}
        /\ compatible_names = <<>>
        /\ candidates = <<>>
        /\ pc = "done" => response.statusCode = 500

\* The source has a catalog entry and no row, and the failure has been raised.
C6_Witness ==
    /\ invoked
    /\ CatalogHas(Source)
    /\ ~ HasRow
    /\ result.kind = "raised"
    /\ args.required_vcpus > 0

\* C7 (as claimed): when the relation has no row for the source, or the row
\* has no true entry, the no-interchangeable-instances dictionary is returned.
\* Stated for a source that has a catalog entry.
C7_NoRowOrNoTrueEntryIsEmptyOutcome ==
    (Finished /\ CatalogHas(Source)
              /\ (~ HasRow \/ \A n \in ColumnNames : ~ MarkedTrue(n))) =>
        result = NoInterchangeable(Source)

\* C7 (amended): for a source with a catalog entry and a row in the relation,
\* a row with no true entry for another name returns the
\* no-interchangeable-instances dictionary (status 200); a source without a
\* row raises the unknown-source failure instead.
C7_NoTrueEntryIsEmptyOutcome ==
    Finished =>
        /\ (KnownSource /\ Compatible = {}) =>
              /\ result = NoInterchangeable(Source)
              /\ pc = "done" => (response.statusCode = 200 /\ response.body = result)
        /\ ~ HasRow => result.kind = "raised"

\* The dictionary is returned for a row without any true entry.
C7_Witness ==
    /\ pc = "done"
    /\ invoked
    /\ KnownSource
    /\ \A n \in ColumnNames : ~ MarkedTrue(n)
    /\ result = NoInterchangeable(Source)

\* C8: when the compatible set is non-empty and every compatible target is
\* absent from the catalog or misses a threshold, the no-feasible-candidate
\* dictionary carrying the requirement is returned, nothing is raised, and
\* the handler answers with status 200.
C8_NoFeasibleIsEmptyOutcome ==
    (Finished /\ KnownSource /\ Compatible # {} /\ FeasibleNames = {}) =>
        /\ result = NoFeasible(args)
        /\ result.vcpus = PyInt(event.required_vcpus, 0)
        /\ result.memory_mib = PyInt(event.required_memory_mib, 0)
        /\ result.gpus = PyInt(event.required_gpus, 0)
        /\ pc \in {"return", "done"}
        /\ pc = "done" => (response.statusCode = 200 /\ response.body = result)

\* A compatible target without a catalog entry and another that misses a
\* threshold, answered with status 200.
C8_Witness ==
    /\ pc = "done"
    /\ result.kind = "error"
    /\ KnownSource
    /\ \E n \in Compatible : ~ CatalogHas(n)
    /\ \E n \in Compatible : CatalogHas(n) /\ ~ MeetsAll(SpecOf(n))
    /\ FeasibleNames = {}
    /\ response.statusCode = 200

\* Control is inside recommend_instance.
InRecommend == pc \in {"call", "discover", "evaluate", "rank"}

\* C9 (as claimed): no step of recommend_instance changes the catalog table
\* or the interchangeability table it was given, labels included.
C9_TablesUnchanged ==
    [][InRecommend => (catalog_df' = catalog_df /\ matrix_df' = matrix_df)]_vars

\* A required location or identifier field is missing from the event.
RequiredFieldMissing ==
    \/ ~ Truthy(event.bucket)
    \/ ~ Truthy(event.catalog_key)
    \/ ~ Truthy(event.matrix_key)
    \/ (~ Truthy(event.current_instance_type) /\ ~ Truthy(event.instance_type))

\* C10 (as claimed): with a required location or identifier field missing the
\* handler answers 400, loads no table and does not call recommend_instance,
\* whatever the other fields are.
C10_MissingFieldIsClientError ==
    RequiredFieldMissing =>
        /\ s3_gets = 0
        /\ ~ invoked
        /\ pc = "done" => response.statusCode = 400

====
